---- MODULE Spec2Model ----
(***************************************************************************)
(* Email one-time-passcode sign-up / sign-in flow of doc-store.            *)
(*                                                                         *)
(*   src/src/lib/appwrite/index.ts        createSessionClient              *)
(*   src/src/lib/actions/user.actions.ts  the server actions               *)
(*   src/src/components/AuthForm.tsx      the form that calls createAccount*)
(*                                                                         *)
(* One browser with two tabs (Clients), each showing an AuthForm; the tabs  *)
(* share the browser's cookie jar, the identity provider and the Users     *)
(* collection.  createAccount is modelled at the granularity of its        *)
(* awaited provider calls; the other server actions are one step each,     *)
(* followed by the delivery of their response.  Every provider call may be *)
(* rejected.                                                               *)
(***************************************************************************)
EXTENDS Integers, Sequences, FiniteSets, TLC

\* ------------------------------------------------------------------ bounds
\* Total number of OTP challenges the provider is asked to issue in a run.
MaxOtp == 2

\* --------------------------------------------------------------- constants
Clients == {"c1", "c2"}
Emails == {"a@x.com", "b@x.com"}
\* What a user can type into the email field: the well-formed addresses and
\* one string z.string().email() rejects.
InputEmails == Emails \cup {"not-an-email"}
\* What a user can type into the full-name field (1, 3 and 51 characters).
InputNames ==
    {"A", "Ann", "Annabelle-Annabelle-Annabelle-Annabelle-Annabelle-X"}
FormTypes == {"sign-in", "sign-up"}
MinNameLen == 2
MaxNameLen == 50
\* null / undefined where an identifier is expected.
NoId == 0
avatarPlaceholderUrl == "avatar-placeholder"

VARIABLES
    docs,       \* the Users collection, in creation order
    accounts,   \* the provider's accounts: accounts[i] is the email of user i
    tokens,     \* outstanding email-token challenges [userId, secret]
    otpCount,   \* number of challenges issued so far
    sessions,   \* the provider's live sessions [id, secret, userId]
    cookie,     \* the values the browser stores under "appwrite-session"
    form,       \* per tab: the AuthForm's React state
    call,       \* per tab: the createAccount invocation of its onSubmit
    last        \* the response of a one-step server action, until delivered

vars == <<docs, accounts, tokens, otpCount, sessions,
          cookie, form, call, last>>

\* ------------------------------------------------------- provider queries
\* databases.listDocuments(..., [Query.equal("email", email)])
ListByEmail(email) == SelectSeq(docs, LAMBDA d : d.email = email)

\* databases.listDocuments(..., [Query.equal("accountId", id)])
ListByAccountId(id) == SelectSeq(docs, LAMBDA d : d.accountId = id)

\* getUserByEmail: the first match, or null (the empty sequence).
getUserByEmail(email) ==
    LET users == ListByEmail(email)
    IN  IF Len(users) > 0 THEN <<users[1]>> ELSE <<>>

\* ID.unique() as the user id handed to createEmailToken.
UniqueUserId == Len(accounts) + 1

\* account.createEmailToken(userId, email): session.userId of the response.
\* The provider keeps one account per email: a known email keeps its user id
\* and the id passed in is ignored.
EmailTokenUserId(userId, email) ==
    IF \E i \in 1..Len(accounts) : accounts[i] = email
    THEN CHOOSE i \in 1..Len(accounts) : accounts[i] = email
    ELSE userId

\* The provider's accounts after createEmailToken(userId, email).
AccountsAfterToken(userId, email) ==
    IF \E i \in 1..Len(accounts) : accounts[i] = email
    THEN accounts
    ELSE Append(accounts, email)

\* The challenge createEmailToken issues.
NewToken(userId) == [userId |-> userId, secret |-> otpCount + 1]

\* The session account.createSession issues for a challenge: a session id
\* and a session secret no other session has.
NewSession(token) ==
    [id |-> token.secret,
     secret |-> <<"secret", token.secret>>,
     userId |-> token.userId]

\* The sessions a cookie jar's value authenticates.
SessionsOf(jar) == {s \in sessions : s.secret \in jar}

\* createSessionClient: throws "No session found" when the cookie is absent
\* or its value is empty.
NoSessionFound(jar) == jar = {} \/ jar = {<<>>}

\* --------------------------------------------------------------- AuthForm
\* z.string().email()
IsEmail(s) == s \in Emails

\* authFormSchema(formType) applied to the submitted values.
authFormSchema(formType, email, fullName) ==
    /\ IsEmail(email)
    /\ formType = "sign-up" =>
         (Len(fullName) >= MinNameLen /\ Len(fullName) <= MaxNameLen)

IdleCall ==
    [pc |-> "idle", fullName |-> "", email |-> "", existingUser |-> <<>>,
     accountId |-> NoId, created |-> {}, sent |-> 0, n0 |-> 0,
     overlap |-> FALSE]

\* A createAccount invocation that has neither returned nor raised.
Running(c) == call[c].pc \in {"lookup", "otp", "create"}

\* No response is waiting to be delivered.
Quiet == last.op = "none"

NoResponse ==
    [op |-> "none", status |-> "none",
     email |-> "", sessionId |-> NoId, user |-> {}, accountId |-> NoId,
     error |-> "", raised |-> "", location |-> ""]

Init ==
    /\ docs = <<>>
    /\ accounts = <<>>
    /\ tokens = {}
    /\ otpCount = 0
    /\ sessions = {}
    /\ cookie \in {{}, {<<>>}}
    /\ form \in [Clients ->
                   [type : FormTypes, isLoading : {FALSE},
                    errorMessage : {""}, accountId : {NoId}]]
    /\ call = [c \in Clients |-> IdleCall]
    /\ last = NoResponse

\* onSubmit up to its await: form.handleSubmit has validated the values, the
\* submit button is enabled, and createAccount is invoked.
Submit(c, email, fullName) ==
    /\ Quiet
    /\ ~form[c].isLoading
    /\ call[c].pc = "idle"
    /\ authFormSchema(form[c].type, email, fullName)
    /\ form' = [form EXCEPT ![c].isLoading = TRUE, ![c].errorMessage = ""]
    /\ call' = [d \in Clients |->
                 IF d = c
                 THEN [IdleCall EXCEPT
                         !.pc = "lookup", !.fullName = fullName,
                         !.email = email,
                         !.n0 = Len(ListByEmail(email)),
                         !.overlap = \E e \in Clients \ {c} : Running(e)]
                 ELSE IF Running(d) THEN [call[d] EXCEPT !.overlap = TRUE]
                 ELSE call[d]]
    /\ UNCHANGED <<docs, accounts, tokens, otpCount, sessions,
                   cookie, last>>

\* The values the form holds when it is submitted: the full-name field is
\* rendered in sign-up mode only and keeps its default "" otherwise.
SubmitForm(c) ==
    \E email \in InputEmails :
        \E fullName \in (IF form[c].type = "sign-up" THEN InputNames ELSE {""}) :
            Submit(c, email, fullName)

\* ---------------------------------------------------------- createAccount
\* sendEmailOTP, provider side: createEmailToken succeeds and a challenge
\* for the email's user is issued.
IssueEmailToken(email) ==
    /\ otpCount < MaxOtp
    /\ accounts' = AccountsAfterToken(UniqueUserId, email)
    /\ tokens' = tokens \cup {NewToken(EmailTokenUserId(UniqueUserId, email))}
    /\ otpCount' = otpCount + 1

\* Mutation of sendEmailOTP: the ID.unique() handed to createEmailToken is
\* returned in place of the response's userId.
sendEmailOTPReturnsUniqueId(email) == UniqueUserId

\* sendEmailOTP: what it returns when createEmailToken succeeds.
sendEmailOTP(email) == EmailTokenUserId(UniqueUserId, email)

\* createAccount: const existingUser = await getUserByEmail(email).
\* A rejected listDocuments propagates to the caller.
CreateAccountLookup(c) ==
    /\ Quiet
    /\ call[c].pc = "lookup"
    /\ \/ call' = [call EXCEPT
                     ![c].existingUser = getUserByEmail(call[c].email),
                     ![c].pc = "otp"]
       \/ call' = [call EXCEPT ![c].pc = "raised"]
    /\ UNCHANGED <<docs, accounts, tokens, otpCount, sessions,
                   cookie, form, last>>

\* Mutation of NeedsDocument: the document is created whatever the lookup
\* returned.
NeedsDocumentAlways(existingUser) == TRUE

\* if (!existingUser)
NeedsDocument(existingUser) == existingUser = <<>>

\* createAccount: const accountId = await sendEmailOTP({ email });
\* if (!accountId) throw ...; with an existing user the function then
\* returns { accountId } without a further await.
CreateAccountSendOTP(c) ==
    /\ Quiet
    /\ call[c].pc = "otp"
    /\ \/ /\ IssueEmailToken(call[c].email)
          /\ LET accountId == sendEmailOTP(call[c].email)
             IN  call' = [call EXCEPT
                    ![c].accountId = accountId,
                    ![c].sent = @ + 1,
                    ![c].pc = IF accountId = NoId THEN "raised"
                              ELSE IF NeedsDocument(call[c].existingUser)
                                   THEN "create"
                                   ELSE "returned"]
       \/ /\ call' = [call EXCEPT ![c].pc = "raised"]
          /\ UNCHANGED <<accounts, tokens, otpCount>>
    /\ UNCHANGED <<docs, sessions, cookie, form, last>>

\* Mutation of NewUserDocument: a fresh ID.unique() is stored as accountId
\* in place of the one sendEmailOTP returned.
NewUserDocumentFreshId(fullName, email, accountId) ==
    [fullName |-> fullName, email |-> email,
     avatar |-> avatarPlaceholderUrl, accountId |-> UniqueUserId]

\* The document createAccount hands to databases.createDocument.
NewUserDocument(fullName, email, accountId) ==
    [fullName |-> fullName, email |-> email,
     avatar |-> avatarPlaceholderUrl, accountId |-> accountId]

\* Mutation of CreateAccountCreate: the email is looked up again in the same
\* step, and the document is created only if it still has none.
CreateAccountCreateOnce(c) ==
    /\ Quiet
    /\ call[c].pc = "create"
    /\ IF getUserByEmail(call[c].email) = <<>>
       THEN /\ docs' = Append(docs, NewUserDocument(call[c].fullName,
                                                     call[c].email,
                                                     call[c].accountId))
            /\ call' = [call EXCEPT ![c].created = @ \cup {Len(docs) + 1},
                                    ![c].pc = "returned"]
       ELSE /\ call' = [call EXCEPT ![c].pc = "returned"]
            /\ UNCHANGED docs
    /\ UNCHANGED <<accounts, tokens, otpCount, sessions, cookie, form, last>>

\* createAccount: await databases.createDocument(...); return { accountId }.
\* The collection takes the document whatever it already holds.
CreateAccountCreate(c) ==
    /\ Quiet
    /\ call[c].pc = "create"
    /\ \/ /\ docs' = Append(docs, NewUserDocument(call[c].fullName,
                                                   call[c].email,
                                                   call[c].accountId))
          /\ call' = [call EXCEPT ![c].created = @ \cup {Len(docs) + 1},
                                  ![c].pc = "returned"]
       \/ /\ call' = [call EXCEPT ![c].pc = "raised"]
          /\ UNCHANGED docs
    /\ UNCHANGED <<accounts, tokens, otpCount, sessions,
                   cookie, form, last>>

\* Mutation of FormResume: setIsLoading(false) follows setAccountId inside
\* the try block, there is no finally.
FormResumeNoFinally(c) ==
    /\ Quiet
    /\ call[c].pc \in {"returned", "raised"}
    /\ form' = [form EXCEPT
                  ![c].accountId =
                      IF call[c].pc = "returned" THEN call[c].accountId ELSE @,
                  ![c].errorMessage =
                      IF call[c].pc = "raised"
                      THEN "Failed to create account." ELSE @,
                  ![c].isLoading = (call[c].pc = "raised")]
    /\ call' = [call EXCEPT ![c] = IdleCall]
    /\ UNCHANGED <<docs, accounts, tokens, otpCount, sessions, cookie, last>>

\* onSubmit after its await: setAccountId(user.accountId) when createAccount
\* resolved, setErrorMessage(...) when it raised, setIsLoading(false) in
\* either case.
FormResume(c) ==
    /\ Quiet
    /\ call[c].pc \in {"returned", "raised"}
    /\ form' = [form EXCEPT
                  ![c].accountId =
                      IF call[c].pc = "returned" THEN call[c].accountId ELSE @,
                  ![c].errorMessage =
                      IF call[c].pc = "raised"
                      THEN "Failed to create account." ELSE @,
                  ![c].isLoading = FALSE]
    /\ call' = [call EXCEPT ![c] = IdleCall]
    /\ UNCHANGED <<docs, accounts, tokens, otpCount, sessions,
                   cookie, last>>

\* {accountId && <OTPModal ... />}
OTPModalRendered(c) == form[c].accountId # NoId

\* ------------------------------------------------- one-step server actions
\* What a rejected provider call throws, and what createSessionClient throws.
AppwriteException == "AppwriteException"
NoSessionError == "No session found"

\* The response of server action op: status "returned" with the returned
\* fields, "raised" with the error thrown to the caller, or "redirected"
\* with the location; the fields it does not carry keep their defaults.
Response(op, status) ==
    [NoResponse EXCEPT !.op = op, !.status = status]

\* handleError(error, message): logs and re-throws error.
handleError(op, error) ==
    [NoResponse EXCEPT !.op = op, !.status = "raised", !.raised = error]

\* Mutation of SessionCookieValue: the session carries no secret (a session
\* created without the admin key), and the empty string is stored.
SessionCookieValueEmpty(session) == <<>>

\* verifySecret: the value stored under SessionCookieName.
SessionCookieValue(session) == session.secret

\* verifySecret({accountId, otp}): account.createSession either issues a
\* session (the pair matches an outstanding challenge, which is used up) or
\* rejects; handleError re-throws the rejection.
VerifySecret(accountId, otp) ==
    \/ /\ Quiet
       /\ [userId |-> accountId, secret |-> otp] \in tokens
       /\ LET session == NewSession([userId |-> accountId, secret |-> otp])
          IN  /\ sessions' = sessions \cup {session}
              /\ tokens' = tokens \ {[userId |-> accountId, secret |-> otp]}
              /\ cookie' = {SessionCookieValue(session)}
              /\ last' = [Response("verifySecret", "returned")
                            EXCEPT !.sessionId = session.id]
       /\ UNCHANGED <<docs, accounts, otpCount, form, call>>
    \/ /\ Quiet
       /\ last' = handleError("verifySecret", AppwriteException)
       /\ UNCHANGED <<docs, accounts, tokens, otpCount, sessions, cookie, form, call>>

\* Mutation of getCurrentUser: createSessionClient() is awaited before the
\* try block, as in signOutUser, so "No session found" reaches the caller.
getCurrentUserClientOutsideTry(jar, accountOk, listOk) ==
    IF NoSessionFound(jar)
    THEN [status |-> "raised", user |-> {}]
    ELSE IF ~accountOk \/ SessionsOf(jar) = {} \/ ~listOk
    THEN [status |-> "returned", user |-> {}]
    ELSE LET result == CHOOSE s \in SessionsOf(jar) : TRUE
             user == ListByAccountId(result.userId)
         IN  IF Len(user) <= 0
             THEN [status |-> "returned", user |-> {}]
             ELSE [status |-> "returned", user |-> {user[1]}]

\* getCurrentUser as a function of the cookie jar and of whether the provider
\* answers account.get() and listDocuments(): [status, user], user being the
\* set holding the returned document, empty for null / undefined.
getCurrentUser(jar, accountOk, listOk) ==
    IF NoSessionFound(jar) \/ ~accountOk \/ SessionsOf(jar) = {} \/ ~listOk
    THEN [status |-> "returned", user |-> {}]
    ELSE LET result == CHOOSE s \in SessionsOf(jar) : TRUE
             user == ListByAccountId(result.userId)
         IN  IF Len(user) <= 0
             THEN [status |-> "returned", user |-> {}]
             ELSE [status |-> "returned", user |-> {user[1]}]

GetCurrentUser ==
    /\ Quiet
    /\ \E accountOk \in BOOLEAN, listOk \in BOOLEAN :
         LET r == getCurrentUser(cookie, accountOk, listOk)
         IN  last' = [Response("getCurrentUser", r.status)
                        EXCEPT !.user = r.user]
    /\ UNCHANGED <<docs, accounts, tokens, otpCount, sessions,
                   cookie, form, call>>

\* signOutUser: createSessionClient() is awaited before the try; inside it,
\* deleteSession("current") then cookies().delete(...); a rejection goes to
\* handleError, and the finally block redirects.
SignOutUser ==
    \/ /\ Quiet
       /\ NoSessionFound(cookie)
       /\ last' = [Response("signOutUser", "raised")
                     EXCEPT !.raised = NoSessionError]
       /\ UNCHANGED <<docs, accounts, tokens, otpCount, sessions, cookie, form, call>>
    \/ /\ Quiet
       /\ ~NoSessionFound(cookie)
       /\ SessionsOf(cookie) # {}
       /\ sessions' = sessions \ SessionsOf(cookie)
       /\ cookie' = {}
       /\ last' = [Response("signOutUser", "redirected")
                     EXCEPT !.location = "/sign-in"]
       /\ UNCHANGED <<docs, accounts, tokens, otpCount,
                      form, call>>
    \/ /\ Quiet
       /\ ~NoSessionFound(cookie)
       /\ last' = [Response("signOutUser", "redirected")
                     EXCEPT !.location = "/sign-in"]
       /\ UNCHANGED <<docs, accounts, tokens, otpCount, sessions, cookie, form, call>>

\* Mutation of SignInUser: the OTP is sent before the lookup's result is
\* looked at, as createAccount does.
SignInUserSendsFirst(email) ==
    \/ /\ Quiet
       /\ IssueEmailToken(email)
       /\ last' = [Response("signInUser", "returned")
                     EXCEPT !.email = email,
                            !.accountId =
                                IF getUserByEmail(email) # <<>>
                                THEN getUserByEmail(email)[1].accountId
                                ELSE NoId,
                            !.error =
                                IF getUserByEmail(email) # <<>>
                                THEN "" ELSE "User not found"]
       /\ UNCHANGED <<docs, sessions, cookie, form, call>>
    \/ /\ Quiet
       /\ last' = [handleError("signInUser", AppwriteException)
                     EXCEPT !.email = email]
       /\ UNCHANGED <<docs, accounts, tokens, otpCount, sessions, cookie,
                      form, call>>

\* signInUser({email}): a found user gets a fresh OTP and its stored
\* accountId back; an unknown email gets the structured "User not found";
\* a rejected provider call is re-thrown by handleError.
SignInUser(email) ==
    \/ /\ Quiet
       /\ getUserByEmail(email) # <<>>
       /\ IssueEmailToken(email)
       /\ last' = [Response("signInUser", "returned")
                     EXCEPT !.email = email,
                            !.accountId = getUserByEmail(email)[1].accountId]
       /\ UNCHANGED <<docs, sessions, cookie, form, call>>
    \/ /\ Quiet
       /\ getUserByEmail(email) = <<>>
       /\ last' = [Response("signInUser", "returned")
                     EXCEPT !.email = email, !.accountId = NoId,
                            !.error = "User not found"]
       /\ UNCHANGED <<docs, accounts, tokens, otpCount, sessions, cookie, form, call>>
    \/ /\ Quiet
       /\ last' = [handleError("signInUser", AppwriteException)
                     EXCEPT !.email = email]
       /\ UNCHANGED <<docs, accounts, tokens, otpCount, sessions, cookie, form, call>>

\* The response reaches the caller; no other step comes between a one-step
\* server action and the delivery of its response.
Deliver ==
    /\ last.op # "none"
    /\ last' = NoResponse
    /\ UNCHANGED <<docs, accounts, tokens, otpCount, sessions, cookie,
                   form, call>>

\* The provider ends a session by its own policy.
ExpireSession ==
    /\ Quiet
    /\ \E s \in sessions : sessions' = sessions \ {s}
    /\ UNCHANGED <<docs, accounts, tokens, otpCount, cookie,
                   form, call, last>>

\* ------------------------------------------------------------ the system
\* A step of tab c: its AuthForm and the createAccount call of its onSubmit.
TabStep(c) ==
    \/ SubmitForm(c)
    \/ CreateAccountLookup(c)
    \/ CreateAccountSendOTP(c)
    \/ CreateAccountCreate(c)
    \/ FormResume(c)

\* A one-step server action, the delivery of its response, or the provider
\* ending a session.
SessionStep ==
    \/ \E accountId \in 1..(Len(accounts) + 1) :
         \E otp \in 0..otpCount : VerifySecret(accountId, otp)
    \/ GetCurrentUser
    \/ SignOutUser
    \/ \E email \in Emails : SignInUser(email)
    \/ Deliver
    \/ ExpireSession

Next == (\E c \in Clients : TabStep(c)) \/ SessionStep

\* The whole system.  The claims are checked under its two restrictions
\* below, whose state spaces TLC exhausts in seconds: the tabs' concurrent
\* sign-ups without the session, and the session with one tab.
Spec == Init /\ [][Next]_vars

\* The tabs alone: the AuthForms and their concurrent createAccount calls,
\* which neither read nor write the session cookie.
NextTabs == \E c \in Clients : TabStep(c)

InitTabs == Init /\ cookie = {}

SpecTabs == InitTabs /\ [][NextTabs]_vars

\* The tabs, with the continuation of onSubmit run once createAccount has
\* settled (the event loop runs the continuation of a settled promise).
SpecTabsFair == SpecTabs /\ \A c \in Clients : WF_vars(FormResume(c))

\* One tab and the session: sign-up or sign-in in tab "c1", interleaved
\* with the one-step server actions.
NextSession == TabStep("c1") \/ SessionStep

SpecSession == Init /\ [][NextSession]_vars

\* ----------------------------------------------------------------- claims
\* createAccount has resolved in tab c.
Resolved(c) == call[c].pc = "returned"

\* createAccount has resolved or raised in tab c.
Finished(c) == call[c].pc \in {"returned", "raised"}

\* C1: a createAccount call whose lookup found no User document for the
\* email and that completes has created exactly one User document, which
\* carries the call's fullName and email, the placeholder avatar and, as
\* accountId, the identifier the OTP dispatch returned (the provider's user
\* id of that email); the accountId it returns is non-empty and is the one
\* stored in that document; and when no other createAccount call overlapped
\* with it, the email has exactly one User document.
C1_CreateAccountCreatesOneDocument ==
    \A c \in Clients :
        (Resolved(c) /\ call[c].existingUser = <<>>) =>
            /\ Cardinality(call[c].created) = 1
            /\ \A i \in call[c].created :
                 /\ i \in 1..Len(docs)
                 /\ docs[i].fullName = call[c].fullName
                 /\ docs[i].email = call[c].email
                 /\ docs[i].avatar = avatarPlaceholderUrl
                 /\ docs[i].accountId = call[c].accountId
            /\ call[c].accountId # NoId
            /\ call[c].accountId \in 1..Len(accounts)
            /\ accounts[call[c].accountId] = call[c].email
            /\ call[c].sent = 1
            /\ ~call[c].overlap => Len(ListByEmail(call[c].email)) = 1

\* C1 witness: a sign-up of "Ann" for an email without document has resolved
\* and its document is in the collection.
C1_Witness ==
    \E c \in Clients :
        /\ Resolved(c)
        /\ form[c].type = "sign-up"
        /\ call[c].fullName = "Ann"
        /\ call[c].existingUser = <<>>
        /\ call[c].n0 = 0
        /\ ~call[c].overlap
        /\ call[c].created # {}
        /\ Len(ListByEmail(call[c].email)) = 1

\* C2: a createAccount call whose lookup found a User document for the email
\* creates no document and dispatches at most one OTP, exactly one when it
\* completes; when no other createAccount call overlapped with it, the email
\* has as many User documents after the call as before it.
C2_ExistingEmailNoNewDocument ==
    \A c \in Clients :
        (Finished(c) /\ call[c].existingUser # <<>>) =>
            /\ call[c].created = {}
            /\ call[c].sent <= 1
            /\ Resolved(c) => call[c].sent = 1
            /\ ~call[c].overlap =>
                 Len(ListByEmail(call[c].email)) = call[c].n0

\* C2 witness: a call for an email that had one document has resolved after
\* one OTP dispatch, and the email still has one document.
C2_Witness ==
    \E c \in Clients :
        /\ Resolved(c)
        /\ call[c].existingUser # <<>>
        /\ ~call[c].overlap
        /\ call[c].n0 = 1
        /\ call[c].sent = 1
        /\ Len(ListByEmail(call[c].email)) = 1
        /\ otpCount = 2

\* C7: when two createAccount calls for the same email have both looked the
\* email up before either created its document and both have resolved, the
\* collection holds two User documents for that email, one created by each.
C7_RaceCreatesTwoDocuments ==
    \A c \in Clients : \A d \in Clients \ {c} :
        ( /\ Resolved(c) /\ Resolved(d)
          /\ call[c].email = call[d].email
          /\ call[c].existingUser = <<>>
          /\ call[d].existingUser = <<>> ) =>
            /\ call[c].created # {}
            /\ call[d].created # {}
            /\ call[c].created \cap call[d].created = {}
            /\ Len(ListByEmail(call[c].email)) >= 2

\* C7 witness: both tabs' calls for "a@x.com" found no document, both have
\* resolved, and the email has two documents.
C7_Witness ==
    /\ \A c \in Clients :
         /\ Resolved(c)
         /\ call[c].email = "a@x.com"
         /\ call[c].existingUser = <<>>
    /\ Len(ListByEmail("a@x.com")) = 2

\* C9 as stated: a submission of the form in sign-in mode, for a well-formed
\* email that had no User document, creates no User document.
C9_SignInCreatesNoDocument ==
    \A c \in Clients :
        (form[c].type = "sign-in" /\ Finished(c) /\ call[c].n0 = 0) =>
            /\ call[c].created = {}
            /\ ~call[c].overlap => Len(ListByEmail(call[c].email)) = 0

\* C10: a submission sets isLoading and clears the error message; the form
\* is loading exactly while its createAccount call is in flight or waiting
\* to be resumed; when createAccount resolved, resuming stores the returned
\* accountId, which renders the OTP modal, and leaves the (cleared) error
\* message; when it raised, resuming shows "Failed to create account." and
\* leaves the stored accountId; in both cases isLoading is false afterwards,
\* and a finished call can always be resumed; the stored accountId changes
\* in no other step; and once createAccount has resolved or raised, the form
\* is eventually idle again with isLoading false.
C10_FormStateMachine ==
    /\ \A c \in Clients :
         Finished(c) ~> (call[c].pc = "idle" /\ ~form[c].isLoading)
    /\ [][\A c \in Clients :
            /\ form[c].isLoading <=> call[c].pc # "idle"
            /\ (call[c].pc = "idle" /\ call'[c].pc # "idle") =>
                 /\ form'[c].isLoading
                 /\ form'[c].errorMessage = ""
                 /\ form'[c].accountId = form[c].accountId
            /\ (Resolved(c) /\ call'[c].pc = "idle") =>
                 /\ ~form'[c].isLoading
                 /\ form'[c].accountId = call[c].accountId
                 /\ form'[c].accountId # NoId
                 /\ form'[c].errorMessage = ""
            /\ (call[c].pc = "raised" /\ call'[c].pc = "idle") =>
                 /\ ~form'[c].isLoading
                 /\ form'[c].errorMessage = "Failed to create account."
                 /\ form'[c].accountId = form[c].accountId
            /\ Finished(c) => ENABLED FormResume(c)
            /\ ~Resolved(c) => form'[c].accountId = form[c].accountId
         ]_vars

\* C10 witness: after a resolved submission and a raised one, the form is
\* idle, shows the error message and still renders the OTP modal.
C10_Witness ==
    \E c \in Clients :
        /\ call[c].pc = "idle"
        /\ ~form[c].isLoading
        /\ form[c].errorMessage = "Failed to create account."
        /\ OTPModalRendered(c)

\* A one-step server action op answers in this step.
Answers(op) == Quiet /\ last'.op = op

\* C3: verifySecret either returns, and then the pair was an outstanding
\* challenge, which is used up, one session of that challenge's user is
\* issued, the session cookie holds exactly that session's (non-empty)
\* secret and the returned sessionId is that session's id; or it raises the
\* provider's error, and then the session cookie, the sessions and the
\* challenges are as before the call.
C3_VerifySecret ==
    [][Answers("verifySecret") =>
         \/ /\ last'.status = "returned"
            /\ \E t \in tokens :
                 /\ tokens' = tokens \ {t}
                 /\ \E s \in sessions' \ sessions :
                      /\ sessions' = sessions \cup {s}
                      /\ s.userId = t.userId
                      /\ s.secret # <<>>
                      /\ cookie' = {s.secret}
                      /\ last'.sessionId = s.id
         \/ /\ last'.status = "raised"
            /\ last'.raised = AppwriteException
            /\ cookie' = cookie
            /\ sessions' = sessions
            /\ tokens' = tokens
      ]_vars

\* C3 witness: verifySecret has returned the id of a live session whose
\* secret is the session cookie, replacing the cookie of an earlier session.
C3_Witness ==
    /\ last.op = "verifySecret"
    /\ last.status = "returned"
    /\ \E s \in sessions : s.id = last.sessionId /\ cookie = {s.secret}
    /\ Cardinality(sessions) = 2

\* C4: getCurrentUser never raises; it returns none when the session cookie
\* is absent or empty, when the cookie's value is no live session of the
\* provider, and when no User document has the session's account id; a
\* document it returns is a stored User document whose accountId is the
\* account id of the cookie's live session.
C4_GetCurrentUser ==
    [][Answers("getCurrentUser") =>
         /\ last'.status = "returned"
         /\ last'.raised = ""
         /\ NoSessionFound(cookie) => last'.user = {}
         /\ SessionsOf(cookie) = {} => last'.user = {}
         /\ (\A s \in SessionsOf(cookie) :
                Len(ListByAccountId(s.userId)) = 0) => last'.user = {}
         /\ Cardinality(last'.user) <= 1
         /\ \A u \in last'.user :
              /\ ~NoSessionFound(cookie)
              /\ \E s \in SessionsOf(cookie) : u.accountId = s.userId
              /\ \E i \in 1..Len(docs) : docs[i] = u
      ]_vars

\* C4 witness: getCurrentUser has returned none although the cookie holds a
\* live session, whose account has no User document.
C4_Witness ==
    /\ last.op = "getCurrentUser"
    /\ last.status = "returned"
    /\ last.user = {}
    /\ SessionsOf(cookie) # {}
    /\ \A s \in SessionsOf(cookie) : Len(ListByAccountId(s.userId)) = 0

\* C5 as stated: every signOutUser invocation ends in the redirect to
\* /sign-in and raises nothing to its caller.
C5_SignOutAlwaysRedirects ==
    last.op = "signOutUser" =>
        /\ last.status = "redirected"
        /\ last.location = "/sign-in"
        /\ last.raised = ""

\* C6: signInUser changes neither the User documents nor the session cookie
\* nor the sessions.  When it returns for an email that has a User document,
\* it returns the accountId of the first such document and no error, and
\* exactly one new challenge has been issued, for that email's account.
\* When it returns for an email without document, it returns accountId null
\* and the error "User not found", and no challenge has been issued.  It
\* raises only the provider's error, with no challenge issued.
C6_SignInUser ==
    [][Answers("signInUser") =>
         /\ docs' = docs
         /\ cookie' = cookie
         /\ sessions' = sessions
         /\ last'.email \in Emails
         /\ (last'.status = "returned" /\ getUserByEmail(last'.email) # <<>>) =>
              /\ last'.accountId = getUserByEmail(last'.email)[1].accountId
              /\ last'.error = ""
              /\ otpCount' = otpCount + 1
              /\ \E t \in tokens' \ tokens :
                   /\ tokens' = tokens \cup {t}
                   /\ accounts'[t.userId] = last'.email
         /\ (last'.status = "returned" /\ getUserByEmail(last'.email) = <<>>) =>
              /\ last'.accountId = NoId
              /\ last'.error = "User not found"
              /\ otpCount' = otpCount
              /\ tokens' = tokens
              /\ accounts' = accounts
         /\ last'.status # "returned" =>
              /\ last'.status = "raised"
              /\ last'.raised = AppwriteException
              /\ otpCount' = otpCount
              /\ tokens' = tokens
      ]_vars

\* C6 witness: signInUser has returned the stored accountId of a registered
\* email.
C6_Witness ==
    /\ last.op = "signInUser"
    /\ last.status = "returned"
    /\ last.accountId # NoId
    /\ getUserByEmail(last.email) # <<>>
    /\ getUserByEmail(last.email)[1].accountId = last.accountId
    /\ otpCount = 2

\* C8 as stated: when a signOutUser invocation that started with a session
\* cookie present has reached its redirect, the session cookie is absent.
C8_SignOutDeletesCookie ==
    [][(Answers("signOutUser") /\ cookie # {}
          /\ last'.status = "redirected") => cookie' = {}
      ]_vars

====
